---- MODULE Spec2Model ----
(***************************************************************************)
(* Model of src/main.py: the single-event-upset detector.                  *)
(*                                                                         *)
(* One process (SEUDetector.run) owns a zero-filled bit arena, sizes it    *)
(* from the free-memory probe, scans it for set bits and accumulates the   *)
(* statistics record, which it writes to stat.json after every scan.       *)
(*                                                                         *)
(* Units.  The clock `now` counts whole seconds; time.time() reads it.     *)
(* Durations are therefore whole numbers.  bitSeconds and runSeconds are   *)
(* floats: whole numbers that are rounded to MantBits significant bits by  *)
(* every addition and multiplication.  The two quotient fields (GbitHours, *)
(* runHours) are kept as exact quotients: a numerator and the sequence of  *)
(* divisors that were applied to it, in the order the code applies them.   *)
(***************************************************************************)
EXTENDS Integers, Sequences, FiniteSets, TLC

(***************************************************************************)
(* Bounds of the model.                                                    *)
(***************************************************************************)
\* The clock stops advancing at MaxTime.
MaxTime == 11
\* Number of events of the environment in one behaviour: a second that
\* passes outside time.sleep, a change of the free memory, an external fault,
\* a kill and restart of the process.
MaxEvents == 3
\* The memory probe reports 0..MaxFree free bytes.
MaxFree == 2
\* External faults hit the bits 0..MaxFaultBit of the arena.
MaxFaultBit == 1
\* Significant bits of a float of the model (a Python float has 53): whole
\* numbers below 2^MantBits are exact, larger ones are rounded.
MantBits == 20
\* Arena lengths and desired lengths tried on the sizing policy alone.
MaxPolicyLen == 12
MaxTotal == 4

(***************************************************************************)
(* Program constants.                                                      *)
(***************************************************************************)
NO_UPDATE == 0
UPDATE_NO_CHECK == 1
UPDATE_WITH_CHECK == 2

\* FREE_MEMORY_USAGE_RATE = 0.75 = RateNum / RateDen
RateNum == 3
RateDen == 4
CHECK_MEMORY_EVERY == 1
CHECK_DATA_EVERY == 10
\* RELATIVE_DATA_LENGTH_CHANGE_TO_UPDATE = 0.2 = RelNum / RelDen
RelNum == 1
RelDen == 5
BitsPerByte == 8
SecondsPerHour == 3600
Giga == 1000000000

\* A local that has not been assigned yet.
Unset == 0 - 1

VARIABLES
    pc,               \* position of the process in run / run_once / check_data
    now,              \* the clock read by time.time()
    data,             \* self.data: [len: bits, ones: indices of the set bits]
    force_reinit,     \* self.force_reinit
    stat,             \* the statistics record held by run()
    file,             \* stat.json: [state: absent | empty | ok, doc: text]
    start_at,         \* run_once locals
    last_check_mem,
    last_check_data,
    mem_left,         \* first argument of min() in the sleep computation
    sleep_for,
    use_bits,
    should,
    caller,           \* which branch of run_once called check_data
    free,             \* free memory of the host, in bytes
    events            \* events of the environment so far

vars == <<pc, now, data, force_reinit, stat, file, start_at, last_check_mem,
          last_check_data, mem_left, sleep_for, use_bits, should, caller,
          free, events>>

env == <<free, events>>

locals == <<start_at, last_check_mem, last_check_data, mem_left, sleep_for,
            use_bits, should, caller>>

(***************************************************************************)
(* Numbers.                                                                *)
(***************************************************************************)
Abs(x) == IF x < 0 THEN 0 - x ELSE x
Min(x, y) == IF x <= y THEN x ELSE y

RECURSIVE Pow2(_)
Pow2(n) == IF n = 0 THEN 1 ELSE 2 * Pow2(n - 1)

\* Whole numbers below FloatLimit are floats; above it the floats are the
\* multiples of 2, then of 4, and so on.
FloatLimit == Pow2(MantBits)

\* The spacing of the floats around x >= 0.
RECURSIVE Quantum(_, _)
Quantum(x, q) == IF x < FloatLimit * q THEN q ELSE Quantum(x, 2 * q)

\* The float nearest to the number x, ties to the even significand.  A
\* whole number below FloatLimit is a float as it stands.
Round(x) ==
    IF Abs(x) < FloatLimit THEN x
    ELSE LET a == Abs(x)
             q == Quantum(a, 1)
             m == a \div q
             r == a - m * q
             up == 2 * r > q \/ (2 * r = q /\ m % 2 = 1)
             v == IF up THEN (m + 1) * q ELSE m * q
         IN IF x < 0 THEN 0 - v ELSE v

\* Float addition and multiplication: the exact result, rounded.
FAdd(x, y) == Round(x + y)
FMul(x, y) == Round(x * y)

\* An exact quotient: n divided by each element of d in turn.
Num(x) == [n |-> x, d |-> <<>>]
Div(q, k) == [n |-> q.n, d |-> Append(q.d, k)]

(***************************************************************************)
(* Statistics and their file.                                              *)
(***************************************************************************)
StatKeys == <<"bitSeconds", "GbitHours", "SEUCases", "runSeconds", "runHours">>

\* load_statistics, FileNotFoundError branch
ZeroStat ==
    [bitSeconds |-> 0, GbitHours |-> Num(0), SEUCases |-> 0,
     runSeconds |-> 0, runHours |-> Num(0)]

\* json.dump: the members of the dict, in insertion order, as key/value pairs
JsonDump(s) == [i \in 1..Len(StatKeys) |-> <<StatKeys[i], s[StatKeys[i]]>>]

\* json.load: the object whose members are the pairs of the document
JsonLoad(doc) ==
    [k \in {doc[i][1] : i \in 1..Len(doc)} |->
        doc[CHOOSE i \in 1..Len(doc) : doc[i][1] = k][2]]

NoFile == [state |-> "absent", doc |-> <<>>]

\* load_statistics: the record read, or the all-zero record when the file
\* does not exist.  Any other content of the file makes json.load raise.
Loadable(f) == f.state \in {"absent", "ok"}
load_statistics(f) == IF f.state = "absent" THEN ZeroStat ELSE JsonLoad(f.doc)

(***************************************************************************)
(* Sizing.                                                                 *)
(***************************************************************************)
\* The desired size taken from the free memory alone, without the arena's
\* own bytes.
get_memory_to_use_freeOnly(free_bytes, len) ==
    (RateNum * free_bytes) \div RateDen

\* get_memory_to_use: int((free + len/8) * 0.75), in bytes
get_memory_to_use(free_bytes, len) ==
    (RateNum * (BitsPerByte * free_bytes + len)) \div (BitsPerByte * RateDen)

\* rel > RELATIVE_DATA_LENGTH_CHANGE_TO_UPDATE, rel = abs(delta) / min(...)
RelExceeds(delta, least) == RelDen * Abs(delta) > RelNum * least

\* The same test with >= : a change of exactly 0.2 would trigger an update.
should_update_array_ge(force, len, bits) ==
    IF force THEN [ret |-> UPDATE_NO_CHECK, force |-> FALSE]
    ELSE IF bits # 0 /\ len = 0 THEN [ret |-> UPDATE_NO_CHECK, force |-> force]
    ELSE IF bits = 0 /\ len # 0 THEN [ret |-> UPDATE_NO_CHECK, force |-> force]
    ELSE IF bits = 0 /\ len = 0 THEN [ret |-> NO_UPDATE, force |-> force]
    ELSE IF RelDen * Abs(bits - len) >= RelNum * Min(bits, len)
         THEN IF bits - len > 0
              THEN [ret |-> UPDATE_WITH_CHECK, force |-> force]
              ELSE [ret |-> UPDATE_NO_CHECK, force |-> force]
         ELSE [ret |-> NO_UPDATE, force |-> force]

\* The sizing evaluation without the force_reinit test.
should_update_array_noforce(force, len, bits) ==
    IF bits # 0 /\ len = 0 THEN [ret |-> UPDATE_NO_CHECK, force |-> force]
    ELSE IF bits = 0 /\ len # 0 THEN [ret |-> UPDATE_NO_CHECK, force |-> force]
    ELSE IF bits = 0 /\ len = 0 THEN [ret |-> NO_UPDATE, force |-> force]
    ELSE IF RelExceeds(bits - len, Min(bits, len))
         THEN IF bits - len > 0
              THEN [ret |-> UPDATE_WITH_CHECK, force |-> force]
              ELSE [ret |-> UPDATE_NO_CHECK, force |-> force]
         ELSE [ret |-> NO_UPDATE, force |-> force]

\* The sizing evaluation that answers to force_reinit without clearing it.
should_update_array_keep(force, len, bits) ==
    IF force THEN [ret |-> UPDATE_NO_CHECK, force |-> TRUE]
    ELSE should_update_array_noforce(force, len, bits)

\* should_update_array(use_bits): the decision and the new self.force_reinit
should_update_array(force, len, bits) ==
    IF force THEN [ret |-> UPDATE_NO_CHECK, force |-> FALSE]
    ELSE IF bits # 0 /\ len = 0 THEN [ret |-> UPDATE_NO_CHECK, force |-> force]
    ELSE IF bits = 0 /\ len # 0 THEN [ret |-> UPDATE_NO_CHECK, force |-> force]
    ELSE IF bits = 0 /\ len = 0 THEN [ret |-> NO_UPDATE, force |-> force]
    ELSE LET delta == bits - len
             least == Min(bits, len)
         IN IF RelExceeds(delta, least)
            THEN IF delta > 0
                 THEN [ret |-> UPDATE_WITH_CHECK, force |-> force]
                 ELSE [ret |-> UPDATE_NO_CHECK, force |-> force]
            ELSE [ret |-> NO_UPDATE, force |-> force]

\* update_array(use_bits): a new arena of use_bits bits, all zero
update_array(bits) == [len |-> bits, ones |-> {}]

(***************************************************************************)
(* check_data, lines 182-199: the accumulation, the scan and its outcome.  *)
(***************************************************************************)
\* self.data.index(one) raised ValueError: no bit is set
NotFound(arena) == arena.ones = {}

\* The period assigned to the totals instead of added to them.
Accumulate_assign(s, len, period) ==
    LET bs == len * period
        rs == period
    IN [s EXCEPT !.bitSeconds = bs,
                 !.GbitHours = Div(Div(Num(bs), SecondsPerHour), Giga),
                 !.runSeconds = rs,
                 !.runHours = Div(Num(rs), SecondsPerHour)]

\* check_data, lines 182-186
Accumulate(s, len, period) ==
    LET bs == FAdd(s.bitSeconds, FMul(len, period))
        rs == FAdd(s.runSeconds, period)
    IN [s EXCEPT !.bitSeconds = bs,
                 !.GbitHours = Div(Div(Num(bs), SecondsPerHour), Giga),
                 !.runSeconds = rs,
                 !.runHours = Div(Num(rs), SecondsPerHour)]

\* Counting every set bit instead of every scan that found one.
CountUpset_perBit(s, arena) ==
    [s EXCEPT !.SEUCases = s.SEUCases + Cardinality(arena.ones)]

\* check_data, lines 194-198: the counter after the scan
CountUpset(s, arena) ==
    IF NotFound(arena) THEN s ELSE [s EXCEPT !.SEUCases = s.SEUCases + 1]

(***************************************************************************)
(* The process.                                                            *)
(***************************************************************************)
FreeValues == 0..MaxFree
NoLocals ==
    /\ start_at = Unset /\ last_check_mem = Unset /\ last_check_data = Unset
    /\ mem_left = Unset /\ sleep_for = Unset /\ use_bits = Unset
    /\ should = Unset /\ caller = "none"

\* run_once has returned (or has not been called yet): its locals are gone
Returned ==
    /\ start_at' = Unset /\ last_check_mem' = Unset
    /\ last_check_data' = Unset /\ mem_left' = Unset /\ sleep_for' = Unset
    /\ use_bits' = Unset /\ should' = Unset /\ caller' = "none"

\* __init__, and the state of the file system before the first run
Init ==
    /\ pc = "load"
    /\ now = 0
    /\ data = [len |-> 0, ones |-> {}]
    /\ force_reinit = FALSE
    /\ stat = ZeroStat
    /\ file = NoFile
    /\ NoLocals
    /\ free \in FreeValues
    /\ events = 0

\* run, line 125: stat = self.load_statistics(); json.load raises on a file
\* that is not a JSON document and the process ends
Load ==
    /\ pc = "load"
    /\ IF Loadable(file)
       THEN stat' = load_statistics(file) /\ pc' = "init_alloc"
       ELSE stat' = stat /\ pc' = "failed"
    /\ UNCHANGED <<now, data, force_reinit, file, locals, env>>

\* run, line 126: self.update_array(self.get_memory_to_use() * 8)
InitAlloc ==
    /\ pc = "init_alloc"
    /\ data' = update_array(get_memory_to_use(free, data.len) * BitsPerByte)
    /\ pc' = "run_once"
    /\ UNCHANGED <<now, force_reinit, stat, file, locals, env>>

\* run_once, lines 131-133
RunOnceStart ==
    /\ pc = "run_once"
    /\ start_at' = now
    /\ last_check_mem' = now
    /\ last_check_data' = now
    /\ pc' = "sleep_mem"
    /\ UNCHANGED <<now, data, force_reinit, stat, file, mem_left, sleep_for,
                   use_bits, should, caller, env>>

\* run_once, line 136: the first argument of min(), with its own clock read
SleepMem ==
    /\ pc = "sleep_mem"
    /\ mem_left' = CHECK_MEMORY_EVERY - (now - last_check_mem)
    /\ pc' = "sleep_data"
    /\ UNCHANGED <<now, data, force_reinit, stat, file, start_at,
                   last_check_mem, last_check_data, sleep_for, use_bits,
                   should, caller, env>>

\* run_once, lines 136-137: the second argument, and the minimum
SleepData ==
    /\ pc = "sleep_data"
    /\ sleep_for' = Min(mem_left, CHECK_DATA_EVERY - (now - last_check_data))
    /\ mem_left' = Unset
    /\ pc' = "sleep"
    /\ UNCHANGED <<now, data, force_reinit, stat, file, start_at,
                   last_check_mem, last_check_data, use_bits, should, caller,
                   env>>

\* run_once, line 138: time.sleep raises ValueError on a negative length,
\* which ends the process; otherwise the clock advances by the length
Sleep ==
    /\ pc = "sleep"
    /\ IF sleep_for < 0
       THEN now' = now /\ pc' = "failed"
       ELSE now + sleep_for <= MaxTime /\ now' = now + sleep_for
            /\ pc' = "test_mem"
    /\ UNCHANGED <<data, force_reinit, stat, file, locals, env>>

\* The two deadline tests in the other order: the data deadline first.
TestMem_dataFirst ==
    /\ pc = "test_mem"
    /\ IF now - last_check_data >= CHECK_DATA_EVERY
       THEN pc' = "check_data" /\ caller' = "data"
       ELSE /\ pc' = IF now - last_check_mem >= CHECK_MEMORY_EVERY
                     THEN "probe" ELSE "test_data"
            /\ caller' = caller
    /\ UNCHANGED <<now, data, force_reinit, stat, file, start_at,
                   last_check_mem, last_check_data, mem_left, sleep_for,
                   use_bits, should, env>>

\* run_once, line 140
TestMem ==
    /\ pc = "test_mem"
    /\ pc' = IF now - last_check_mem >= CHECK_MEMORY_EVERY
             THEN "probe" ELSE "test_data"
    /\ UNCHANGED <<now, data, force_reinit, stat, file, locals, env>>

\* run_once, lines 141-142
Probe ==
    /\ pc = "probe"
    /\ use_bits' = get_memory_to_use(free, data.len) * BitsPerByte
    /\ pc' = "decide"
    /\ UNCHANGED <<now, data, force_reinit, stat, file, start_at,
                   last_check_mem, last_check_data, mem_left, sleep_for,
                   should, caller, env>>

\* UpdateWithCheck handled like UpdateNoCheck: no checkpoint before the resize.
Branch_noCheck(ret) ==
    CASE ret = UPDATE_NO_CHECK -> "update"
      [] ret = UPDATE_WITH_CHECK -> "update"
      [] ret = NO_UPDATE -> "no_update"
      [] OTHER -> "failed"

\* run_once, lines 144-155: where each decision leads
Branch(ret) ==
    CASE ret = UPDATE_NO_CHECK -> "update"
      [] ret = UPDATE_WITH_CHECK -> "check_data"
      [] ret = NO_UPDATE -> "no_update"
      [] OTHER -> "failed"

\* run_once, lines 143-155: the sizing evaluation and the branch on it
Decide ==
    /\ pc = "decide"
    /\ LET r == should_update_array(force_reinit, data.len, use_bits)
       IN /\ should' = r.ret
          /\ force_reinit' = r.force
          /\ pc' = Branch(r.ret)
          /\ caller' = IF Branch(r.ret) = "check_data" THEN "mem" ELSE caller
    /\ UNCHANGED <<now, data, stat, file, start_at, last_check_mem,
                   last_check_data, mem_left, sleep_for, use_bits, env>>

\* A reallocation that also folds the period into the statistics.
Update_accum ==
    /\ pc = "update"
    /\ data' = update_array(use_bits)
    /\ stat' = Accumulate(stat, data.len, now - start_at)
    /\ pc' = "run_once"
    /\ Returned
    /\ UNCHANGED <<now, force_reinit, file, env>>

\* A reallocation after which the period goes on, as after NoUpdate.
Update_continue ==
    /\ pc = "update"
    /\ data' = update_array(use_bits)
    /\ last_check_mem' = now
    /\ pc' = "test_data"
    /\ UNCHANGED <<now, force_reinit, stat, file, start_at, last_check_data,
                   mem_left, sleep_for, use_bits, should, caller, env>>

\* run_once, lines 145-146 and 149-150: update_array(use_bits); return
Update ==
    /\ pc = "update"
    /\ data' = update_array(use_bits)
    /\ pc' = "run_once"
    /\ Returned
    /\ UNCHANGED <<now, force_reinit, stat, file, env>>

\* A memory check that resets both deadlines.
NoUpdate_bothDeadlines ==
    /\ pc = "no_update"
    /\ last_check_mem' = now
    /\ last_check_data' = now
    /\ pc' = "test_data"
    /\ UNCHANGED <<now, data, force_reinit, stat, file, start_at, mem_left,
                   sleep_for, use_bits, should, caller, env>>

\* run_once, lines 151-153
NoUpdate ==
    /\ pc = "no_update"
    /\ last_check_mem' = now
    /\ pc' = "test_data"
    /\ UNCHANGED <<now, data, force_reinit, stat, file, start_at,
                   last_check_data, mem_left, sleep_for, use_bits, should,
                   caller, env>>

\* run_once, lines 157-159
TestData ==
    /\ pc = "test_data"
    /\ IF now - last_check_data >= CHECK_DATA_EVERY
       THEN pc' = "check_data" /\ caller' = "data"
       ELSE pc' = "sleep_mem" /\ caller' = caller
    /\ UNCHANGED <<now, data, force_reinit, stat, file, start_at,
                   last_check_mem, last_check_data, mem_left, sleep_for,
                   use_bits, should, env>>

\* The statistics written only when the scan found a bit.
CheckData_dumpOnUpset ==
    /\ pc = "check_data"
    /\ LET period == now - start_at
       IN stat' = CountUpset(Accumulate(stat, data.len, period), data)
    /\ force_reinit' = IF NotFound(data) THEN force_reinit ELSE TRUE
    /\ IF ~NotFound(data) THEN pc' = "dump_open" /\ UNCHANGED locals
       ELSE IF caller = "mem" THEN pc' = "update" /\ UNCHANGED locals
       ELSE pc' = "run_once" /\ Returned
    /\ UNCHANGED <<now, data, file, env>>

\* The elapsed time measured from the last memory check.
CheckData_sinceMem ==
    /\ pc = "check_data"
    /\ LET period == now - last_check_mem
       IN stat' = CountUpset(Accumulate(stat, data.len, period), data)
    /\ force_reinit' = IF NotFound(data) THEN force_reinit ELSE TRUE
    /\ pc' = "dump_open"
    /\ UNCHANGED <<now, data, file, locals, env>>

\* check_data, lines 182-199
CheckData ==
    /\ pc = "check_data"
    /\ LET period == now - start_at
       IN stat' = CountUpset(Accumulate(stat, data.len, period), data)
    /\ force_reinit' = IF NotFound(data) THEN force_reinit ELSE TRUE
    /\ pc' = "dump_open"
    /\ UNCHANGED <<now, data, file, locals, env>>

\* dump_statistics, line 121: open(..., 'w') creates or truncates the file
DumpOpen ==
    /\ pc = "dump_open"
    /\ file' = [state |-> "empty", doc |-> <<>>]
    /\ pc' = "dump_write"
    /\ UNCHANGED <<now, data, force_reinit, stat, locals, env>>

\* dump_statistics, line 122, and the return of check_data to its caller
DumpWrite ==
    /\ pc = "dump_write"
    /\ file' = [state |-> "ok", doc |-> JsonDump(stat)]
    /\ IF caller = "mem"
       THEN pc' = "update" /\ UNCHANGED locals
       ELSE pc' = "run_once" /\ Returned
    /\ UNCHANGED <<now, data, force_reinit, stat, env>>

(***************************************************************************)
(* The environment.  Each of its events counts against MaxEvents.          *)
(***************************************************************************)
\* A second passes while the process computes (outside time.sleep).
Tick ==
    /\ pc # "failed"
    /\ now < MaxTime
    /\ events < MaxEvents
    /\ now' = now + 1
    /\ events' = events + 1
    /\ UNCHANGED <<pc, data, force_reinit, stat, file, locals, free>>

\* The free memory of the host changes.
MemChange ==
    /\ pc # "failed"
    /\ events < MaxEvents
    /\ \E f \in FreeValues \ {free} : free' = f
    /\ events' = events + 1
    /\ UNCHANGED <<pc, now, data, force_reinit, stat, file, locals>>

\* An external fault sets one or more bits of the arena.
Upset ==
    /\ pc \notin {"load", "failed"}
    /\ events < MaxEvents
    /\ \E hit \in SUBSET (0..MaxFaultBit) :
          /\ hit # {}
          /\ \A i \in hit : i < data.len
          /\ data' = [data EXCEPT !.ones = @ \cup hit]
    /\ events' = events + 1
    /\ UNCHANGED <<pc, now, force_reinit, stat, file, locals, free>>

\* The process is killed (or has ended) and is started again: a new
\* SEUDetector, a new run(); only the file survives.
Restart ==
    /\ events < MaxEvents
    /\ events' = events + 1
    /\ pc' = "load"
    /\ data' = [len |-> 0, ones |-> {}]
    /\ force_reinit' = FALSE
    /\ stat' = ZeroStat
    /\ Returned
    /\ UNCHANGED <<now, file, free>>

Next ==
    \/ Load \/ InitAlloc \/ RunOnceStart \/ SleepMem \/ SleepData \/ Sleep
    \/ TestMem \/ Probe \/ Decide \/ Update \/ NoUpdate \/ TestData
    \/ CheckData \/ DumpOpen \/ DumpWrite
    \/ Tick \/ MemChange \/ Upset \/ Restart

Spec == Init /\ [][Next]_vars

\* The steps of the process itself.  The interpreter runs the next
\* statement whenever there is one: the process is not starved for ever.
Process ==
    \/ Load \/ InitAlloc \/ RunOnceStart \/ SleepMem \/ SleepData \/ Sleep
    \/ TestMem \/ Probe \/ Decide \/ Update \/ NoUpdate \/ TestData
    \/ CheckData \/ DumpOpen \/ DumpWrite

SpecLive == Init /\ [][Next]_vars /\ WF_vars(Process)

(***************************************************************************)
(* The sizing policy on its own: should_update_array is applied once to    *)
(* every flag, arena length and desired length up to MaxPolicyLen.         *)
(***************************************************************************)
InitPolicy ==
    /\ pc = "decide"
    /\ now = 0
    /\ \E len \in 0..MaxPolicyLen : data = [len |-> len, ones |-> {}]
    /\ force_reinit \in BOOLEAN
    /\ stat = ZeroStat
    /\ file = NoFile
    /\ start_at = 0 /\ last_check_mem = 0 /\ last_check_data = 0
    /\ mem_left = Unset /\ sleep_for = Unset
    /\ use_bits \in 0..MaxPolicyLen
    /\ should = Unset /\ caller = "none"
    /\ free = 0
    /\ events = 0

SpecPolicy == InitPolicy /\ [][Decide]_vars

(***************************************************************************)
(* The accumulation on its own: a starting record read from the file, an   *)
(* arena of constant length, and two checkpoints, the first t1 after time  *)
(* 0 and the second t2 after the first.                                    *)
(***************************************************************************)
AccumTotals == {0, 5, FloatLimit - 1, FloatLimit, FloatLimit + 2}
AccumLengths == {0, 1, 3, 8}
AccumTimes == {1, 2, 3}

StatOf(bs, rs) ==
    [bitSeconds |-> bs,
     GbitHours |-> Div(Div(Num(bs), SecondsPerHour), Giga),
     SEUCases |-> 0,
     runSeconds |-> rs,
     runHours |-> Div(Num(rs), SecondsPerHour)]

InitAccum ==
    /\ pc = "accum_1"
    /\ now \in AccumTimes
    /\ \E len \in AccumLengths : data = [len |-> len, ones |-> {}]
    /\ force_reinit = FALSE
    /\ \E bs \in AccumTotals, rs \in AccumTotals :
          /\ stat = StatOf(bs, rs)
          /\ file = [state |-> "ok", doc |-> JsonDump(StatOf(bs, rs))]
    /\ start_at = 0 /\ last_check_mem = 0 /\ last_check_data = 0
    /\ mem_left = Unset /\ sleep_for = Unset /\ use_bits = Unset
    /\ should = Unset /\ caller = "none"
    /\ free = 0
    /\ events = 0

\* check_data, lines 182-186, for the period that began at start_at
AccumCheckpoint ==
    /\ pc \in {"accum_1", "accum_2"}
    /\ stat' = Accumulate(stat, data.len, now - start_at)
    /\ pc' = IF pc = "accum_1" THEN "accum_next" ELSE "accum_done"
    /\ UNCHANGED <<now, data, force_reinit, file, locals, env>>

\* run_once, line 131, for the second period, and the time it lasts
AccumNextPeriod ==
    /\ pc = "accum_next"
    /\ start_at' = now
    /\ \E t \in AccumTimes : now' = now + t
    /\ pc' = "accum_2"
    /\ UNCHANGED <<data, force_reinit, stat, file, last_check_mem,
                   last_check_data, mem_left, sleep_for, use_bits, should,
                   caller, env>>

SpecAccum == InitAccum /\ [][AccumCheckpoint \/ AccumNextPeriod]_vars

(***************************************************************************)
(* A host on which the arena is the only thing that changes the free       *)
(* memory: what update_array allocates is taken from the free bytes and    *)
(* what it releases is given back, so that the free bytes plus the bytes   *)
(* of the arena stay what they were at the start.                          *)
(***************************************************************************)
TotalValues == 0..MaxTotal

InitTracking ==
    /\ pc = "load"
    /\ now = 0
    /\ data = [len |-> 0, ones |-> {}]
    /\ force_reinit = FALSE
    /\ stat = ZeroStat
    /\ file = NoFile
    /\ NoLocals
    /\ free \in TotalValues
    /\ events = 0

\* The free bytes once an arena of old bits has been replaced by one of
\* new bits.
FreeAfter(f, old, new) == f + old \div BitsPerByte - new \div BitsPerByte

\* run, line 126, seen by get_free_memory
InitAllocTracking ==
    /\ pc = "init_alloc"
    /\ data' = update_array(get_memory_to_use(free, data.len) * BitsPerByte)
    /\ free' = FreeAfter(free, data.len, data'.len)
    /\ pc' = "run_once"
    /\ UNCHANGED <<now, force_reinit, stat, file, locals, events>>

\* run_once, lines 145-146 and 149-150, seen by get_free_memory
UpdateTracking ==
    /\ pc = "update"
    /\ data' = update_array(use_bits)
    /\ free' = FreeAfter(free, data.len, data'.len)
    /\ pc' = "run_once"
    /\ Returned
    /\ UNCHANGED <<now, force_reinit, stat, file, events>>

NextTracking ==
    \/ Load \/ InitAllocTracking \/ RunOnceStart \/ SleepMem \/ SleepData
    \/ Sleep \/ TestMem \/ Probe \/ Decide \/ UpdateTracking \/ NoUpdate
    \/ TestData \/ CheckData \/ DumpOpen \/ DumpWrite
    \/ Tick \/ Upset

SpecTracking == InitTracking /\ [][NextTracking]_vars

(***************************************************************************)
(* Steps of the process, as seen from outside.                             *)
(***************************************************************************)
DecideStep == pc = "decide" /\ pc' \in {"update", "check_data", "no_update"}
CheckDataStep == pc = "check_data" /\ pc' = "dump_open"
UpdateStep == pc = "update" /\ pc' = "run_once"
RestartStep == pc' = "load" /\ events' = events + 1
LoadStep == pc = "load" /\ pc' \in {"init_alloc", "failed"}

(***************************************************************************)
(* Claims.                                                                 *)
(***************************************************************************)

\* The ordered rules of the sizing contract, for flag f, current length c
\* and desired length d.
SizingRule(f, c, d) ==
    CASE f -> UPDATE_NO_CHECK
      [] ~f /\ d > 0 /\ c = 0 -> UPDATE_NO_CHECK
      [] ~f /\ d = 0 /\ c > 0 -> UPDATE_NO_CHECK
      [] ~f /\ d = 0 /\ c = 0 -> NO_UPDATE
      [] ~f /\ d > 0 /\ c > 0 /\ 5 * Abs(d - c) > Min(d, c) /\ d > c
            -> UPDATE_WITH_CHECK
      [] ~f /\ d > 0 /\ c > 0 /\ 5 * Abs(d - c) > Min(d, c) /\ d < c
            -> UPDATE_NO_CHECK
      [] ~f /\ d > 0 /\ c > 0 /\ 5 * Abs(d - c) <= Min(d, c) -> NO_UPDATE

\* C1: for every flag, current length c >= 0 and desired length d >= 0 the
\* sizing evaluation returns the decision of the ordered rules: flag set ->
\* UpdateNoCheck; d>0, c=0 -> UpdateNoCheck; d=0, c>0 -> UpdateNoCheck;
\* d=0, c=0 -> NoUpdate; otherwise with rel = |d-c|/min(d,c): rel > 0.2 and
\* growing -> UpdateWithCheck, rel > 0.2 and shrinking -> UpdateNoCheck,
\* rel <= 0.2 (0.2 itself included) -> NoUpdate.
C1_DecisionFollowsRules ==
    [][DecideStep =>
          should' = SizingRule(force_reinit, data.len, use_bits)]_vars

\* C1 witness: a change of exactly 0.2 was evaluated and left the arena alone.
C1_Witness ==
    /\ pc = "no_update"
    /\ should = NO_UPDATE
    /\ data.len > 0
    /\ use_bits # data.len
    /\ 5 * Abs(use_bits - data.len) = Min(use_bits, data.len)

\* C2: whenever the scan of a checkpoint finds a set bit, force_reinit
\* becomes true; it stays true until the next sizing evaluation, and that
\* evaluation returns UpdateNoCheck and is followed by a reallocation to the
\* desired length, whatever the current and desired lengths are.
C2_UpsetForcesReinit ==
    [][/\ (CheckDataStep /\ data.ones # {}) => force_reinit'
       /\ (force_reinit /\ ~DecideStep /\ ~RestartStep) => force_reinit'
       /\ (DecideStep /\ force_reinit) =>
              (should' = UPDATE_NO_CHECK /\ pc' = "update")
       /\ UpdateStep => data' = [len |-> use_bits, ones |-> {}]]_vars

\* C2 witness: after a detected upset the evaluation chose UpdateNoCheck
\* although the desired length equals the current one.
C2_Witness ==
    /\ pc = "update"
    /\ should = UPDATE_NO_CHECK
    /\ stat.SEUCases = 1
    /\ data.ones # {}
    /\ use_bits = data.len

\* C3: SEUCases changes only in a checkpoint: a checkpoint whose scan finds
\* at least one set bit adds exactly 1, however many bits are set; a
\* checkpoint whose scan finds none, and every other step of a running
\* process, leaves it unchanged.
C3_OneCasePerScan ==
    [][IF CheckDataStep
       THEN stat'.SEUCases =
                stat.SEUCases + (IF data.ones # {} THEN 1 ELSE 0)
       ELSE (~RestartStep /\ ~LoadStep) =>
                stat'.SEUCases = stat.SEUCases]_vars

\* C3 witness: a scan over an arena with two set bits has counted one case.
C3_Witness ==
    /\ pc = "dump_open"
    /\ Cardinality(data.ones) >= 2
    /\ stat.SEUCases = 1

\* C4: force_reinit is false right after every sizing evaluation, and only
\* a checkpoint whose scan finds a set bit turns it from false to true.
C4_ForceReinitCleared ==
    [][/\ DecideStep => ~force_reinit'
       /\ (~force_reinit /\ force_reinit') =>
              (CheckDataStep /\ data.ones # {})]_vars

\* C4 witness: an upset was detected, the next evaluation consumed the flag,
\* the arena was reallocated and the flag is still false.
C4_Witness ==
    /\ pc = "run_once"
    /\ events = 1
    /\ stat.SEUCases = 1
    /\ data.len > 0
    /\ data.ones = {}
    /\ ~force_reinit

\* C5: in every iteration the memory deadline is tested before the data
\* deadline.  The data test is reached only from a memory test that found
\* the deadline not elapsed or from a NoUpdate decision; a decision of
\* UpdateNoCheck or UpdateWithCheck leads to the reallocation (the latter
\* through the checkpoint called by the memory branch) and the return, never
\* to the data test; the data branch's checkpoint is entered only from the
\* data test.
C5_MemoryBeforeData ==
    [][/\ (pc' = "test_data" /\ pc # "test_data") =>
              \/ pc = "test_mem" /\ now - last_check_mem < CHECK_MEMORY_EVERY
              \/ pc = "no_update" /\ should = NO_UPDATE
       /\ (pc = "test_mem" /\ pc' # "test_mem" /\ ~RestartStep) =>
              pc' = IF now - last_check_mem >= CHECK_MEMORY_EVERY
                    THEN "probe" ELSE "test_data"
       /\ (DecideStep /\ should' = UPDATE_NO_CHECK) => pc' = "update"
       /\ (DecideStep /\ should' = UPDATE_WITH_CHECK) =>
              (pc' = "check_data" /\ caller' = "mem")
       /\ (DecideStep /\ should' = NO_UPDATE) => pc' = "no_update"
       /\ (pc' = "check_data" /\ pc # "check_data" /\ caller' = "data") =>
              (pc = "test_data"
               /\ now - last_check_data >= CHECK_DATA_EVERY)
       /\ (pc = "dump_write" /\ caller = "mem" /\ pc' # pc /\ ~RestartStep)
              => pc' = "update"
       /\ UpdateStep => start_at' = Unset]_vars

\* C5 witness: both deadlines have elapsed and the period ends through the
\* memory branch, on UpdateNoCheck.
C5_Witness ==
    /\ pc = "update"
    /\ should = UPDATE_NO_CHECK
    /\ caller = "none"
    /\ now - last_check_mem >= CHECK_MEMORY_EVERY
    /\ now - last_check_data >= CHECK_DATA_EVERY

\* C6: on UpdateWithCheck the checkpoint runs before the reallocation: the
\* decision leads to the checkpoint with the arena untouched; the checkpoint
\* adds (old arena length) x (time since the start of the period) to
\* bitSeconds and scans the old arena; the arena keeps its length while the
\* statistics are written; only then is it replaced by one of the desired
\* length, and the period ends.
C6_CheckpointBeforeResize ==
    [][/\ (DecideStep /\ should' = UPDATE_WITH_CHECK) =>
              /\ pc' = "check_data" /\ caller' = "mem"
              /\ data' = data
              /\ data.len < use_bits
       /\ (CheckDataStep /\ caller = "mem") =>
              /\ stat'.bitSeconds =
                     stat.bitSeconds + data.len * (now - start_at)
              /\ force_reinit' = (force_reinit \/ data.ones # {})
              /\ data' = data
              /\ data.len < use_bits
       /\ (pc = "dump_open" /\ caller = "mem" /\ pc' = "dump_write") =>
              data' = data
       /\ (pc = "dump_write" /\ caller = "mem" /\ pc' # pc /\ ~RestartStep)
              => (pc' = "update" /\ data' = data /\ use_bits' = use_bits)
       /\ UpdateStep => data' = [len |-> use_bits, ones |-> {}]]_vars

\* C6 witness: the checkpoint of an UpdateWithCheck decision has recorded
\* exposure and the arena still has its old, smaller length.
C6_Witness ==
    /\ pc = "update"
    /\ caller = "mem"
    /\ should = UPDATE_WITH_CHECK
    /\ stat.bitSeconds > 0
    /\ data.len < use_bits

\* C7: the statistics record in memory is changed only by a checkpoint (and
\* set at startup), and the file only by the write of a checkpoint: the
\* sizing evaluation, a NoUpdate continuation, a reallocation and sleeping
\* leave both unchanged.
C7_OnlyCheckpointsChangeStatistics ==
    [][/\ (stat' # stat) => (CheckDataStep \/ LoadStep \/ RestartStep)
       /\ (file' # file) =>
              (pc \in {"dump_open", "dump_write"}
               /\ pc' \in {"dump_write", "update", "run_once"})]_vars

\* C7 witness: a period with exposure (a non-empty arena, time elapsed) is
\* about to end by UpdateNoCheck with nothing recorded for it.
C7_Witness ==
    /\ pc = "update"
    /\ should = UPDATE_NO_CHECK
    /\ caller = "none"
    /\ data.len > 0
    /\ now > start_at
    /\ stat = ZeroStat
    /\ file = NoFile

\* C8: whenever the running process is outside a checkpoint, from the load
\* at startup onward, the file holds a record equal to the statistics in
\* memory in all five fields (no file standing for the all-zero record).
C8_FileEqualsMemory ==
    pc \notin {"load", "dump_open", "dump_write", "failed"} =>
        /\ Loadable(file)
        /\ LET rec == load_statistics(file)
           IN /\ DOMAIN rec = DOMAIN stat
              /\ \A k \in DOMAIN stat : rec[k] = stat[k]

\* C8 witness: a checkpoint without a detected upset has returned and its
\* result is in the file.
C8_Witness ==
    /\ pc = "run_once"
    /\ events = 0
    /\ file.state = "ok"
    /\ stat.runSeconds > 0
    /\ stat.SEUCases = 0

\* C9: a crash loses at most the current period: at whatever step a
\* running process is stopped, the process started next finds a statistics
\* file it can load (absent, or a complete record), and that record equals
\* the statistics the stopped process held, except that a process stopped
\* inside a checkpoint before its write may leave the record of the previous
\* checkpoint.
C9_CrashLosesAtMostOnePeriod ==
    [][(RestartStep /\ pc \notin {"load", "failed"}) =>
          /\ Loadable(file')
          /\ pc # "dump_open" =>
                 \A k \in DOMAIN stat : load_statistics(file')[k] = stat[k]
      ]_vars

\* C10: a checkpoint adds elapsed to runSeconds and (arena length x elapsed)
\* to bitSeconds and recomputes GbitHours = bitSeconds/3600/10^9 and
\* runHours = runSeconds/3600, where elapsed is the time since start_at;
\* start_at is set once, when run_once is entered, and no step inside the
\* period (a NoUpdate memory check included) changes it.
C10_CheckpointAddsPeriod ==
    [][/\ (pc = "run_once" /\ pc' = "sleep_mem") => start_at' = now
       /\ (pc \notin {"run_once", "update", "dump_write"} /\ ~RestartStep)
              => start_at' = start_at
       /\ (pc \in {"update", "dump_write"} /\ pc' # "run_once"
           /\ ~RestartStep) => start_at' = start_at
       /\ CheckDataStep =>
              /\ stat'.runSeconds = stat.runSeconds + (now - start_at)
              /\ stat'.bitSeconds =
                     stat.bitSeconds + data.len * (now - start_at)
              /\ stat'.GbitHours =
                     Div(Div(Num(stat'.bitSeconds), 3600), 1000000000)
              /\ stat'.runHours = Div(Num(stat'.runSeconds), 3600)]_vars

\* C10 witness: a checkpoint after NoUpdate memory checks inside the
\* period has added the whole period, not the time since the last check.
C10_Witness ==
    /\ pc = "dump_open"
    /\ last_check_mem > start_at
    /\ stat.runSeconds = now - start_at
    /\ stat.runSeconds > now - last_check_mem
    /\ stat.bitSeconds = data.len * stat.runSeconds
    /\ data.len > 0

\* The desired length, in bits, for f free bytes and an arena of len bits:
\* 0.75 of (f + len/8) bytes, truncated, times 8.
DesiredBits(f, len) == 8 * ((3 * (8 * f + len)) \div 32)

\* C11 as stated: with no statistics file and a probe that reports the same
\* value on every query (no event of the environment), every sizing decision
\* after the startup allocation is NoUpdate.
C11_OneAllocationOnly ==
    [][(DecideStep /\ events' = 0) => should' = NO_UPDATE]_vars

\* C11 amended: with no statistics file and a probe that reports the same
\* value F on every query, the startup allocation is 8 * int(0.75 * F) bits;
\* every later decision compares the arena with the desired length
\* 8 * int(0.75 * (F + len/8)), which counts the arena's own bytes on top of
\* F: it is UpdateWithCheck (followed by a reallocation to that length) when
\* the desired length exceeds the current one by more than 0.2 of it,
\* NoUpdate otherwise, and never UpdateNoCheck.
C11_ConstantProbeGrowsArena ==
    [][/\ (pc = "init_alloc" /\ pc' = "run_once" /\ events' = 0) =>
              data'.len = 8 * ((3 * free) \div 4)
       /\ (DecideStep /\ events' = 0) =>
              /\ use_bits = DesiredBits(free, data.len)
              /\ use_bits >= data.len
              /\ should' = IF 5 * (use_bits - data.len) > data.len
                           THEN UPDATE_WITH_CHECK ELSE NO_UPDATE
       /\ (UpdateStep /\ events' = 0) => data'.len = use_bits]_vars

\* C11 witness: the probe never changed and the arena allocated at startup is
\* about to be replaced by a longer one.
C11_Witness ==
    /\ pc = "update"
    /\ events = 0
    /\ should = UPDATE_WITH_CHECK
    /\ data.len > 0
    /\ use_bits > data.len

\* C12: within a run of the process every checkpoint makes runSeconds
\* strictly greater, and bitSeconds strictly greater when the arena is not
\* empty; no step makes either smaller.
C12_TotalsIncrease ==
    [][/\ CheckDataStep =>
              /\ stat'.runSeconds > stat.runSeconds
              /\ data.len > 0 => stat'.bitSeconds > stat.bitSeconds
       /\ (~RestartStep /\ ~LoadStep) =>
              /\ stat'.runSeconds >= stat.runSeconds
              /\ stat'.bitSeconds >= stat.bitSeconds]_vars

\* C12 witness: the second checkpoint of a run, over a non-empty arena, has
\* raised both totals above those of the first, which are in the file.
C12_Witness ==
    /\ pc = "dump_open"
    /\ events = 0
    /\ data.len > 0
    /\ file.state = "ok"
    /\ JsonLoad(file.doc).runSeconds > 0
    /\ stat.runSeconds > JsonLoad(file.doc).runSeconds
    /\ stat.bitSeconds > JsonLoad(file.doc).bitSeconds

\* The record one checkpoint over both periods gives: the starting record
\* (the one in the file), the arena length, and the time since time 0.
OneCheckpoint == Accumulate(load_statistics(file), data.len, now)

\* Every product and sum of the two checkpoints and of the single one is a
\* float as it stands: nothing was rounded.
AccumExact ==
    LET s0 == load_statistics(file)
        t1 == start_at
        t2 == now - start_at
        IsFloat(x) == Round(x) = x
    IN /\ IsFloat(data.len * t1) /\ IsFloat(data.len * t2)
       /\ IsFloat(data.len * now)
       /\ IsFloat(s0.bitSeconds + data.len * t1)
       /\ IsFloat(s0.bitSeconds + data.len * t1 + data.len * t2)
       /\ IsFloat(s0.runSeconds + t1)
       /\ IsFloat(s0.runSeconds + t1 + t2)

\* C13 as stated: for every starting record, arena length L and elapsed
\* times t1, t2, two checkpoints (t1, then t2) give the same bitSeconds and
\* runSeconds as one checkpoint with elapsed t1 + t2.
C13_AccumulationAdditive ==
    pc = "accum_done" =>
        /\ stat.bitSeconds = OneCheckpoint.bitSeconds
        /\ stat.runSeconds = OneCheckpoint.runSeconds

\* C13 amended: two checkpoints (t1, then t2) at constant length L give the
\* same bitSeconds and runSeconds as one checkpoint with elapsed t1 + t2
\* whenever every product and sum involved is exactly representable as a
\* float.
C13_AdditiveWhenExact ==
    (pc = "accum_done" /\ AccumExact) =>
        /\ stat.bitSeconds = OneCheckpoint.bitSeconds
        /\ stat.runSeconds = OneCheckpoint.runSeconds

\* C13 witness: two checkpoints over a non-empty arena, nothing rounded, on
\* top of a starting record that was not zero.
C13_Witness ==
    /\ pc = "accum_done"
    /\ AccumExact
    /\ data.len > 1
    /\ load_statistics(file).bitSeconds > 0
    /\ load_statistics(file).runSeconds > 0
    /\ start_at # now - start_at
    /\ stat.bitSeconds =
           load_statistics(file).bitSeconds + data.len * now

\* The steps of a memory check whose decision is NoUpdate: the evaluation
\* (lines 141-143) and the branch taken on it (lines 151-153).
NoUpdateDecided == pc = "decide" /\ pc' = "no_update"
NoUpdateTaken == pc = "no_update" /\ pc' = "test_data"

\* The process is inside an exposure period (run_once has set its clocks
\* and has not returned).
InPeriod ==
    pc \in {"sleep_mem", "sleep_data", "sleep", "test_mem", "probe", "decide",
            "no_update", "update", "test_data", "check_data", "dump_open",
            "dump_write"}

\* C14: a memory check whose sizing decision is NoUpdate resets only the
\* memory deadline: the arena (length and content), the statistics (in
\* memory and on file), the period start and the data deadline are
\* unchanged, the period continues (the data test of the same iteration is
\* next), and throughout a period the data deadline is counted from the
\* period start, however many NoUpdate memory checks occurred.
C14_NoUpdateResetsMemoryDeadlineOnly ==
    [][/\ NoUpdateDecided =>
            /\ should' = NO_UPDATE
            /\ UNCHANGED <<data, stat, file, force_reinit, start_at,
                           last_check_mem, last_check_data>>
       /\ NoUpdateTaken =>
            /\ last_check_mem' = now
            /\ UNCHANGED <<data, stat, file, force_reinit, start_at,
                           last_check_data, now>>
       /\ InPeriod' => last_check_data' = start_at'
      ]_vars

\* C14 witness: a NoUpdate memory check has just been taken three units or
\* more into a period, and the data deadline still counts from the period
\* start.
C14_Witness ==
    /\ pc = "test_data"
    /\ should = NO_UPDATE
    /\ last_check_mem = now
    /\ now - start_at >= 3
    /\ last_check_data = start_at
    /\ data.len > 0

\* C16: in every scheduler iteration the computed sleep duration is never
\* negative and never exceeds the memory-check period, and after the sleep
\* at least one of the two deadlines has elapsed.  This is to hold even
\* when time advances between the deadline tests of one iteration and the
\* sleep computation of the next.
C16_SleepUntilNearerDeadline ==
    /\ pc = "sleep" =>
          /\ sleep_for >= 0
          /\ sleep_for <= CHECK_MEMORY_EVERY
    /\ pc = "test_mem" =>
          \/ now - last_check_mem >= CHECK_MEMORY_EVERY
          \/ now - last_check_data >= CHECK_DATA_EVERY

\* The clock of the model has run out: the sleep would end after MaxTime.
ClockExhausted == pc = "sleep" /\ sleep_for >= 0 /\ now + sleep_for > MaxTime

\* C15: every exposure period terminates: whatever the memory probe
\* returns, a run_once call that has begun eventually returns (by a
\* reallocation or by a checkpoint), so that a fresh period can begin,
\* unless the process is killed first.  Stated for the periods that begin at
\* time 0, which have room below MaxTime for the ten units up to the data
\* deadline.
C15_PeriodTerminates ==
    (InPeriod /\ start_at = 0) ~>
        (pc \in {"run_once", "load"} \/ ClockExhausted)

\* C17: the arena length is constant throughout an exposure period: no
\* step that stays inside the period changes it, every reallocation inside
\* the scheduler is the last step of its period, and so the length a
\* checkpoint multiplies by the elapsed time is the length the arena had for
\* the whole period.
C17_LengthConstantInPeriod ==
    [][/\ (InPeriod /\ InPeriod') => data'.len = data.len
       /\ (InPeriod /\ data'.len # data.len) => pc' \in {"run_once", "load"}
      ]_vars

\* C17 witness: starting from zero statistics, a data-deadline checkpoint
\* over a non-empty arena has recorded length times elapsed time.
C17_Witness ==
    /\ pc = "dump_write"
    /\ caller = "data"
    /\ data.len > 0
    /\ now - start_at >= CHECK_DATA_EVERY
    /\ stat.bitSeconds = data.len * (now - start_at)

\* C18: a single upset is counted at most once: no scan begins while
\* force_reinit is set, the flag is cleared only on the way to a
\* reallocation (or by the end of the process), and a reallocation leaves
\* the arena all-zero; so a bit that a scan has found is gone before the
\* next scan, whatever the probe values and the timing.
C18_UpsetCountedOnce ==
    [][/\ pc' = "check_data" => ~force_reinit'
       /\ (force_reinit /\ ~force_reinit') => pc' \in {"update", "load"}
       /\ UpdateStep => data'.ones = {}
      ]_vars

\* C18 witness: an upset has been counted, the arena has been reallocated
\* since, and a later period is under way with a clean arena and the count
\* still at one.
C18_Witness ==
    /\ InPeriod
    /\ stat.SEUCases = 1
    /\ ~force_reinit
    /\ data.len > 0
    /\ data.ones = {}

\* C19: whenever force_reinit is true, the arena has not been reallocated
\* since the scan that set it (a detected upset causes exactly one
\* reallocation): no reallocation leaves force_reinit set.  This includes
\* the UpdateWithCheck path, which reallocates right after its checkpoint.
C19_OneReallocationPerUpset ==
    [][UpdateStep => ~force_reinit']_vars

\* The startup allocation (run, line 126) is done.
Started == pc \notin {"load", "init_alloc"}

\* C20: on a host where free bytes plus arena bytes stay constant, after
\* the startup allocation the desired length equals the current arena
\* length, every sizing decision taken without a detected upset pending is
\* NoUpdate, and the arena length never changes again.
C20_TrackingProbeNeverResizes ==
    [][/\ Started' => DesiredBits(free', data'.len) = data'.len
       /\ (DecideStep /\ ~force_reinit) =>
              (should' = NO_UPDATE /\ pc' = "no_update")
       /\ Started => data'.len = data.len
      ]_vars

\* C20 witness: well after the startup allocation, a sizing decision over
\* an arena of two bytes or more, with free memory left, was NoUpdate.
C20_Witness ==
    /\ pc = "no_update"
    /\ should = NO_UPDATE
    /\ data.len >= 2 * BitsPerByte
    /\ free > 0
    /\ now - start_at >= 2
    /\ DesiredBits(free, data.len) = data.len

====
